---- MODULE Spec2Model ----
(***************************************************************************)
(* State-machine model of the MapView component                            *)
(* (src/src/app/components/MapView.tsx): the three upload handlers, the    *)
(* clear handler and the auto-center effect.                               *)
(*                                                                         *)
(* A latitude or longitude is an IEEE 754 binary64 number and is modelled  *)
(* exactly, as a whole number of quanta (see Numbers below).               *)
(*                                                                         *)
(* A geometry collection (the value toGeoJSON.kml returns) is modelled by  *)
(* the set of its coordinates <<lat, lng>>; the empty set is a collection  *)
(* without any coordinate (a document without placemarks, or the document  *)
(* DOMParser returns for text in which it notices an error before it has   *)
(* read a placemark).                                                      *)
(*                                                                         *)
(* The library calls that read a file (file.arrayBuffer, file.text,        *)
(* JSZip.loadAsync, zip entry decoding, exifr.gps) are inputs: what each   *)
(* of them does for a given file (return a value, or reject) is a field of *)
(* the file value the handler is given.                                    *)
(***************************************************************************)
EXTENDS Integers, Sequences, FiniteSets

VARIABLES
    geoData,        \* useState geoData: sequence of geometry collections
    trackingData,   \* useState trackingData: sequence of geometry collections
    photoMarkers,   \* useState photoMarkers: sequence of PhotoMarker records
    mapCenter,      \* useState mapCenter: <<lat, lng>>
    effectPending,  \* the auto-center effect of the last render is scheduled
    batches,        \* the handler invocations in flight, with their locals
    uploaded,       \* number of files handed to the handlers so far (bounds
                    \* the run)
    nextUrl,        \* the next object URL that URL.createObjectURL hands out
    liveUrls,       \* object URLs created and not revoked
    notices,        \* number of alert('No geotagged photos found!') calls
    last,           \* the step taken last (history, for stating properties)
    hist            \* the uploads started and completed (history; kept
                    \* only by the specifications that record it)

vars == <<geoData, trackingData, photoMarkers, mapCenter, effectPending,
          batches, uploaded, nextUrl, liveUrls, notices, last, hist>>

----------------------------------------------------------------------------
(* Bounds of the model *)

\* Largest number of files uploaded in one run, over all uploads.
MaxFiles == 3

\* Largest number of handler invocations in flight at the same time.
MaxBatches == 2

\* An upload of photos without files is taken while fewer notices than this
\* were shown.
MaxNotices == 2

\* Largest number of uploads in one run where the uploads are recorded.
MaxUploads == 3

----------------------------------------------------------------------------
(* Numbers *)

(* A number is the integer count of quanta it is a multiple of.  The quantum
   is 2^-48 degree for a latitude and 2^-46 degree for a longitude: the unit
   in the last place of the binary64 numbers of [16, 32) and of [64, 128),
   the binades of the default center (17.6131, 121.7270).  On both axes the
   numbers of that binade are the counts from 2^52 up to 2^53, and every
   binary64 number of a lower binade that is a multiple of the quantum (0
   among them) is a count as well.  A count is held in two limbs <<hi, lo>>
   that stand for hi * 2^24 + lo, with 0 <= lo < 2^24. *)

\* 2^24
Limb == 16777216

Zero == <<0, 0>>
One == <<0, 1>>

\* a < b and a <= b.
Less(a, b) == a[1] < b[1] \/ (a[1] = b[1] /\ a[2] < b[2])
Leq(a, b) == a = b \/ Less(a, b)

\* -a.
Neg(a) == IF a[2] = 0 THEN <<-a[1], 0>> ELSE <<-a[1] - 1, Limb - a[2]>>

\* The exact sum a + b.
Add(a, b) ==
    IF a[2] + b[2] >= Limb
    THEN <<a[1] + b[1] + 1, a[2] + b[2] - Limb>>
    ELSE <<a[1] + b[1], a[2] + b[2]>>

\* The binary64 number nearest to the count n of [2^53, 2^54): there the
\* binary64 numbers are the even counts, and an odd count lies halfway
\* between two of them, of which the one with the even mantissa (the
\* multiple of 4) is taken.
RoundToEven(n) ==
    IF n[2] % 2 = 0 THEN n
    ELSE IF n[2] % 4 = 1 THEN <<n[1], n[2] - 1>>
    ELSE Add(n, One)

\* Half of the even count n.
Half(n) == <<n[1] \div 2, (n[1] % 2) * (Limb \div 2) + n[2] \div 2>>

\* (a + b) / 2 in binary64 for a and b of the binade [2^52, 2^53): the sum
\* is rounded to the nearest binary64 number, the division by 2 is exact.
Mid(a, b) == Half(RoundToEven(Add(a, b)))

\* a - b as an integer, for counts less than 2^6 limbs apart.
Off(a, b) == (a[1] - b[1]) * Limb + (a[2] - b[2])

\* The least and the greatest number of the set S.
Min(S) == CHOOSE x \in S : \A y \in S : Leq(x, y)
Max(S) == CHOOSE x \in S : \A y \in S : Leq(y, x)

----------------------------------------------------------------------------
(* Program constants *)

\* 17.6131 as a binary64 number: 4957646912302455 * 2^-48.
DefaultLat == <<295498783, 2174327>>

\* 121.7270 as a binary64 number: 8565776122514506 * 2^-46.
DefaultLng == <<510560043, 134218>>

DefaultCenter == <<DefaultLat, DefaultLng>>

\* Outcome of a library call or of one pass of a handler's try block:
\* Throw is a rejected promise or a thrown exception, Undefined the
\* JavaScript value undefined, Value(v) the value v.
Throw == [tag |-> "throw"]
Undefined == [tag |-> "undefined"]
Value(v) == [tag |-> "value", value |-> v]

----------------------------------------------------------------------------
(* Input values *)

\* The latitude 17.5 + k * 2^-48 and the longitude 121.5 + k * 2^-46, for
\* 0 <= k < 2^24.
Lat(k) == <<293601280, k>>
Lng(k) == <<509607936, k>>

P1 == <<Lat(0), Lng(0)>>
P2 == <<Lat(43), Lng(81)>>
P3 == <<Lat(82), Lng(20)>>

\* The text of a markup file or archive entry.  placemarks are the
\* placemarks written in the text, in their order, each the set of its
\* coordinates (one for a point, more for a line).  Kml(ps) is a
\* well-formed KML document.  Malformed(ps, n) is text that is not
\* well-formed XML, in which the parser has read n of the placemarks when
\* it notices the error: none for a mismatched end tag, a broken tag or a
\* bare & before the first placemark; all of them for a tag of the head
\* left unclosed (noticed at the end tag of the enclosing element) and for
\* text that is cut off behind the last placemark.
Kml(ps) == [error |-> FALSE, placemarks |-> ps, read |-> Len(ps)]
Malformed(ps, n) == [error |-> TRUE, placemarks |-> ps, read |-> n]

\* Entry names of archives, as sequences of characters.
NameDocKml == <<"d", ".", "k", "m", "l">>
NameTwoKml == <<"b", ".", "k", "m", "l">>
NameUpper  == <<"d", ".", "K", "M", "L">>
NameTxt    == <<"r", ".", "t", "x", "t">>

\* An archive entry.  content is what zip.files[name].async('text')
\* settles to: the text of the entry, or Throw when decoding it rejects.
Entry(n, c) == [name |-> n, content |-> c]

\* Boundary archives.  readable = FALSE: file.arrayBuffer rejects;
\* archive = FALSE: JSZip.loadAsync rejects.
KmzFiles ==
    { [name |-> "unreadable.kmz", readable |-> FALSE, archive |-> FALSE,
       entries |-> <<>>],
      [name |-> "corrupt.kmz", readable |-> TRUE, archive |-> FALSE,
       entries |-> <<>>],
      [name |-> "nokml.kmz", readable |-> TRUE, archive |-> TRUE,
       entries |-> <<Entry(NameTxt, Value(Kml(<<{P1}>>))),
                     Entry(NameUpper, Value(Kml(<<{P1}>>)))>>],
      [name |-> "one.kmz", readable |-> TRUE, archive |-> TRUE,
       entries |-> <<Entry(NameTxt, Value(Kml(<<{P2, P3}>>))),
                     Entry(NameDocKml, Value(Kml(<<{P1}>>)))>>],
      [name |-> "two.kmz", readable |-> TRUE, archive |-> TRUE,
       entries |-> <<Entry(NameDocKml, Value(Kml(<<{P2, P3}>>))),
                     Entry(NameTwoKml, Value(Kml(<<{P1}>>)))>>],
      [name |-> "bad.kmz", readable |-> TRUE, archive |-> TRUE,
       entries |-> <<Entry(NameDocKml, Throw),
                     Entry(NameTwoKml, Value(Kml(<<{P1}>>)))>>] }

\* A boundary archive whose markup entry has a mismatched end tag in its
\* head.
MalformedKmz ==
    [name |-> "malformed.kmz", readable |-> TRUE, archive |-> TRUE,
     entries |-> <<Entry(NameDocKml, Value(Malformed(<<{P1}>>, 0)))>>]

\* Track files.  content is what file.text() settles to: the text of the
\* file, or Throw when reading it rejects.  malformed.kml has a mismatched
\* end tag in its head; cut.kml is cut off behind its first placemark, of
\* which the parser has read all when it notices the error.
TrackFiles ==
    { [name |-> "bad.kml", content |-> Throw],
      [name |-> "malformed.kml",
       content |-> Value(Malformed(<<{P2, P3}>>, 0))],
      [name |-> "cut.kml",
       content |-> Value(Malformed(<<{P2, P3}, {P1}>>, 1))],
      [name |-> "t1.kml", content |-> Value(Kml(<<{P1}>>))] }

\* The object exifr.gps resolves to; each field is a number or undefined.
Gps(la, lo) == Value([latitude |-> la, longitude |-> lo])

\* Photos.  gps is what exifr.gps(file) resolves to: Undefined (no GPS
\* block), a latitude/longitude record, or Throw when it rejects.
PhotoFiles ==
    { [name |-> "plain.jpg", gps |-> Undefined],
      [name |-> "broken.jpg", gps |-> Throw],
      [name |-> "a.jpg", gps |-> Gps(Value(Lat(0)), Value(Lng(0)))],
      [name |-> "b.jpg", gps |-> Gps(Value(Lat(82)), Value(Lng(80)))],
      [name |-> "equator.jpg", gps |-> Gps(Value(Zero), Value(Lng(0)))],
      [name |-> "greenwich.jpg", gps |-> Gps(Value(Lat(43)), Value(Zero))],
      [name |-> "half.jpg", gps |-> Gps(Value(Lat(0)), Undefined)] }

\* files.length: what an upload takes from the budget MaxFiles of a run.
Cost(files) == Len(files)

\* The file lists of at most n files an upload can carry.
FileLists(S, n) == UNION { [1..k -> S] : k \in 0..n }

----------------------------------------------------------------------------
(* Pure helpers *)

\* String.prototype.endsWith('.kml') on an entry name.
EndsWithKml(n) ==
    /\ Len(n) >= 4
    /\ SubSeq(n, Len(n) - 3, Len(n)) = <<".", "k", "m", "l">>

\* Mutant of FindKml: the last matching entry is taken.
FindLastKml(entries) ==
    LET hits == { i \in 1..Len(entries) : EndsWithKml(entries[i].name) }
    IN  IF hits = {} THEN 0
        ELSE CHOOSE i \in hits : \A j \in hits : i >= j

\* Object.keys(zip.files).find(f => f.endsWith('.kml')): the index of the
\* first matching entry, 0 when there is none (find returns undefined).
FindKml(entries) ==
    LET hits == { i \in 1..Len(entries) : EndsWithKml(entries[i].name) }
    IN  IF hits = {} THEN 0
        ELSE CHOOSE i \in hits : \A j \in hits : i <= j

\* new DOMParser().parseFromString(text, 'text/xml'): the document of the
\* text.  Text that is not well-formed does not make it throw: it returns
\* a document that holds a parsererror element and every placemark read
\* before the parser notices the error.
ParseFromString(text) ==
    [parsererror |-> text.error,
     placemarks |-> SubSeq(text.placemarks, 1, text.read)]

\* toGeoJSON.kml(kmlDom): the collection of the features of the
\* placemarks of the document, which is the set of their coordinates.
ToGeoJSON(kmlDom) ==
    UNION { kmlDom.placemarks[i] : i \in DOMAIN kmlDom.placemarks }

\* The body of the try block of handleKmzFiles for one file: Throw when a
\* step throws, Undefined when the loop continues without a result, else
\* the geometry that is pushed.
KmzResult(file) ==
    IF ~file.readable \/ ~file.archive THEN Throw
    ELSE LET k == FindKml(file.entries)
         IN  IF k = 0 THEN Undefined
             ELSE IF file.entries[k].content.tag = "throw" THEN Throw
             ELSE Value(ToGeoJSON(ParseFromString(
                                     file.entries[k].content.value)))

\* The number of awaits the try block of handleKmzFiles goes through for
\* one file: file.arrayBuffer(), then JSZip.loadAsync(buffer), then, when
\* there is a .kml entry, zip.files[kmlFile].async('text').
KmzAwaits(file) ==
    IF ~file.readable THEN 1
    ELSE IF ~file.archive \/ FindKml(file.entries) = 0 THEN 2
    ELSE 3

\* The body of the try block of handleTrackingFiles for one file.
TrackResult(file) ==
    IF file.content.tag = "throw" THEN Throw
    ELSE Value(ToGeoJSON(ParseFromString(file.content.value)))

\* JavaScript truthiness of a number-or-undefined value.
Truthy(x) == x.tag = "value" /\ x.value # Zero

\* exifData?.latitude && exifData?.longitude
HasGps(exifData) ==
    /\ exifData.tag = "value"
    /\ Truthy(exifData.value.latitude)
    /\ Truthy(exifData.value.longitude)

\* The body of the try block of handlePhotos for one file: Throw, Undefined
\* (nothing pushed) or the marker pushed, url being a fresh object URL.
PhotoResult(file, url) ==
    IF file.gps.tag = "throw" THEN Throw
    ELSE IF HasGps(file.gps)
         THEN Value([lat |-> file.gps.value.latitude.value,
                     lng |-> file.gps.value.longitude.value,
                     url |-> url, name |-> file.name])
         ELSE Undefined

\* list.push(r) inside try/catch: a throw or a skipped file pushes nothing.
Push(list, r) ==
    IF r.tag = "value" THEN Append(list, r.value) ELSE list

\* L.latLngBounds([]): bounds without corners (isValid() is false).
EmptyBounds ==
    [valid |-> FALSE, s |-> Zero, w |-> Zero, n |-> Zero, e |-> Zero]

\* L.geoJSON(g).getBounds(): the bounding rectangle of g's coordinates.
GeoBounds(g) ==
    IF g = {} THEN EmptyBounds
    ELSE [valid |-> TRUE,
          s |-> Min({p[1] : p \in g}), w |-> Min({p[2] : p \in g}),
          n |-> Max({p[1] : p \in g}), e |-> Max({p[2] : p \in g})]

\* The bounds b extended by the bounds o: invalid bounds extend nothing,
\* and invalid bounds take the edges of the bounds they are extended by.
Extended(b, o) ==
    IF ~o.valid THEN b
    ELSE IF ~b.valid THEN o
    ELSE [valid |-> TRUE,
          s |-> IF Less(o.s, b.s) THEN o.s ELSE b.s,
          w |-> IF Less(o.w, b.w) THEN o.w ELSE b.w,
          n |-> IF Less(b.n, o.n) THEN o.n ELSE b.n,
          e |-> IF Less(b.e, o.e) THEN o.e ELSE b.e]

\* bounds.extend(other) for a LatLngBounds argument (both bounds are
\* evaluated once).
ExtendBounds(bounds, other) ==
    CHOOSE r \in { Extended(b, o) : b \in {bounds}, o \in {other} } : TRUE

\* bounds.extend([lat, lng]) for a point.
ExtendPoint(b, lat, lng) ==
    ExtendBounds(b, [valid |-> TRUE, s |-> lat, w |-> lng, n |-> lat, e |-> lng])

\* geos.forEach(g => bounds.extend(L.geoJSON(g).getBounds()))
RECURSIVE ExtendGeos(_, _)
ExtendGeos(b, geos) ==
    IF geos = <<>> THEN b
    ELSE ExtendGeos(ExtendBounds(b, GeoBounds(Head(geos))), Tail(geos))

\* photoMarkers.forEach(p => bounds.extend([p.lat, p.lng]))
RECURSIVE ExtendMarkers(_, _)
ExtendMarkers(b, ms) ==
    IF ms = <<>> THEN b
    ELSE ExtendMarkers(ExtendPoint(b, Head(ms).lat, Head(ms).lng), Tail(ms))

\* Mutant of GetCenter: the south-west corner is returned.
GetCorner(b) == <<b.s, b.w>>

\* bounds.getCenter(): the point ((south + north) / 2, (west + east) / 2),
\* computed in binary64.
GetCenter(b) ==
    CHOOSE c \in { <<Mid(s, n), Mid(w, e)>> :
                     s \in {b.s}, n \in {b.n}, w \in {b.w}, e \in {b.e} } : TRUE

\* The bounds the effect accumulates over the three collections.
AllBounds(geo, track, photos) ==
    ExtendMarkers(ExtendGeos(ExtendGeos(EmptyBounds, geo), track), photos)

----------------------------------------------------------------------------
(* State *)

\* The record kept in last: the operation of the step; the kind of upload
\* (for a clear: whether there was content to clear; for the effect: the
\* kind of the step that scheduled it); the files of the invocation the step
\* belongs to; the results a completing step hands to its state setter; and
\* a note: the outcome of the file a handler step processed, or the
\* operation that scheduled the effect.
Step(op, kind, files, added, note) ==
    [op |-> op, kind |-> kind, files |-> files, added |-> added, note |-> note]

\* The locals of one handler invocation: files, the index i of the file of
\* the for loop that is being awaited, the await of the try block it is
\* suspended at (1 for the first), and the list of results pushed so far.
Batch(kind, files, i, at, list) ==
    [kind |-> kind, files |-> files, i |-> i, at |-> at, list |-> list]

\* The sequence seq without its element at index b.
Remove(seq, b) == SubSeq(seq, 1, b - 1) \o SubSeq(seq, b + 1, Len(seq))

Init ==
    /\ geoData = <<>>
    /\ trackingData = <<>>
    /\ photoMarkers = <<>>
    /\ mapCenter = DefaultCenter
    /\ effectPending = FALSE
    /\ batches = <<>>
    /\ uploaded = 0
    /\ nextUrl = 1
    /\ liveUrls = {}
    /\ notices = 0
    /\ last = Step("init", "none", <<>>, <<>>, "none")
    /\ hist = [started |-> 0, ids |-> <<>>, done |-> {}, log |-> <<>>]

\* !geoData.length && !trackingData.length && !photoMarkers.length
AllEmpty == Len(geoData) = 0 /\ Len(trackingData) = 0 /\ Len(photoMarkers) = 0

\* Mutant of AutoCenter: the effect leaves the center alone.
AutoCenterKept(geo, track, photos, center) == center

\* The center after the auto-center effect, which was rendered with geo,
\* track and photos, when the center would be center without it.
AutoCenter(geo, track, photos, center) ==
    IF Len(geo) = 0 /\ Len(track) = 0 /\ Len(photos) = 0 THEN center
    ELSE LET bounds == AllBounds(geo, track, photos)
         IN  IF bounds.valid THEN GetCenter(bounds) ELSE center

\* The center after the render of the state updates of a handler, which
\* leave the center at center.  React runs a scheduled effect before it
\* renders again: the effect sees the collections of its own render, and
\* its setMapCenter call joins the queue behind the updates of the handler.
Flush(center) ==
    IF effectPending
    THEN AutoCenter(geoData, trackingData, photoMarkers, center)
    ELSE center

\* Mutant of AppendAll: the updater drops the previous value.
ReplaceAll(prev, list) == list

\* The updater prev => [...prev, ...list] of the three state setters.
AppendAll(prev, list) == prev \o list

\* setGeoData(prev => [...prev, ...geojsonList]); the new array schedules
\* the effect.
SetGeoData(list) ==
    /\ geoData' = AppendAll(geoData, list)
    /\ mapCenter' = Flush(mapCenter)
    /\ effectPending' = TRUE
    /\ UNCHANGED <<trackingData, photoMarkers, notices>>

\* Mutant of SetTrackingData: the track handler calls the boundary setter.
SetTrackingDataAsGeo(list) ==
    /\ geoData' = AppendAll(geoData, list)
    /\ mapCenter' = Flush(mapCenter)
    /\ effectPending' = TRUE
    /\ UNCHANGED <<trackingData, photoMarkers, notices>>

\* setTrackingData(prev => [...prev, ...geojsonList])
SetTrackingData(list) ==
    /\ trackingData' = AppendAll(trackingData, list)
    /\ mapCenter' = Flush(mapCenter)
    /\ effectPending' = TRUE
    /\ UNCHANGED <<geoData, photoMarkers, notices>>

\* Mutant of FinishPhotos: the notice is shown but the handler goes on to
\* the setter instead of returning, and shows it for every upload.
FinishPhotosAlwaysNotice(markers) ==
    /\ notices' = notices + 1
    /\ photoMarkers' = AppendAll(photoMarkers, markers)
    /\ mapCenter' = Flush(mapCenter)
    /\ effectPending' = TRUE
    /\ UNCHANGED <<geoData, trackingData>>

\* if (!markers.length) return alert(...); setPhotoMarkers(prev => ...)
FinishPhotos(markers) ==
    IF Len(markers) = 0
    THEN /\ notices' = notices + 1
         /\ UNCHANGED <<geoData, trackingData, photoMarkers, mapCenter,
                        effectPending>>
    ELSE /\ photoMarkers' = AppendAll(photoMarkers, markers)
         /\ mapCenter' = Flush(mapCenter)
         /\ effectPending' = TRUE
         /\ UNCHANGED <<geoData, trackingData, notices>>

\* The operation recorded for the last step of a photo upload.
PhotoOp(markers) == IF Len(markers) = 0 THEN "notice" ELSE "append"

----------------------------------------------------------------------------
(* Actions.  A handler runs from one await to the next without interruption:
   a step takes an invocation from the await it is suspended at to the next
   await, or, after the last file, through the state setter that ends the
   handler.  The state a step sets is rendered at once; an effect that is
   still scheduled then runs first (Flush). *)

\* handleKmzFiles is called with a file list: an empty list runs the
\* handler to its end, otherwise it suspends at the first await of the
\* first file.
handleKmzFiles(files) ==
    /\ Len(batches) < MaxBatches
    /\ uploaded + Cost(files) <= MaxFiles
    /\ uploaded' = uploaded + Cost(files)
    /\ UNCHANGED <<nextUrl, liveUrls>>
    /\ IF files = <<>>
       THEN /\ SetGeoData(<<>>)
            /\ UNCHANGED batches
            /\ last' = Step("append", "kmz", files, <<>>, "none")
       ELSE /\ batches' = Append(batches, Batch("kmz", files, 1, 1, <<>>))
            /\ last' = Step("start", "kmz", files, <<>>, "none")
            /\ UNCHANGED <<geoData, trackingData, photoMarkers, mapCenter,
                           effectPending, notices>>

\* Mutant of handleKmzFilesResume: the loop runs from the last file to the
\* first.
handleKmzFilesResumeBackwards(b) ==
    /\ batches[b].kind = "kmz"
    /\ UNCHANGED <<uploaded, nextUrl, liveUrls>>
    /\ LET t == batches[b]
           file == t.files[Len(t.files) + 1 - t.i]
           r == KmzResult(file)
           list == Push(t.list, r)
       IN  IF t.at < KmzAwaits(file)
           THEN /\ batches' = [batches EXCEPT ![b] =
                                 Batch(t.kind, t.files, t.i, t.at + 1, t.list)]
                /\ last' = Step("await", "kmz", t.files, <<>>, "none")
                /\ UNCHANGED <<geoData, trackingData, photoMarkers, mapCenter,
                               effectPending, notices>>
           ELSE IF t.i < Len(t.files)
           THEN /\ batches' = [batches EXCEPT ![b] =
                                 Batch(t.kind, t.files, t.i + 1, 1, list)]
                /\ last' = Step("file", "kmz", t.files, <<>>, r.tag)
                /\ UNCHANGED <<geoData, trackingData, photoMarkers, mapCenter,
                               effectPending, notices>>
           ELSE /\ SetGeoData(list)
                /\ batches' = Remove(batches, b)
                /\ last' = Step("append", "kmz", t.files, list, r.tag)

\* The await invocation b of handleKmzFiles is suspended at settles.
handleKmzFilesResume(b) ==
    /\ batches[b].kind = "kmz"
    /\ UNCHANGED <<uploaded, nextUrl, liveUrls>>
    /\ LET t == batches[b]
           file == t.files[t.i]
           r == KmzResult(file)
           list == Push(t.list, r)
       IN  IF t.at < KmzAwaits(file)
           THEN /\ batches' = [batches EXCEPT ![b] =
                                 Batch(t.kind, t.files, t.i, t.at + 1, t.list)]
                /\ last' = Step("await", "kmz", t.files, <<>>, "none")
                /\ UNCHANGED <<geoData, trackingData, photoMarkers, mapCenter,
                               effectPending, notices>>
           ELSE IF t.i < Len(t.files)
           THEN /\ batches' = [batches EXCEPT ![b] =
                                 Batch(t.kind, t.files, t.i + 1, 1, list)]
                /\ last' = Step("file", "kmz", t.files, <<>>, r.tag)
                /\ UNCHANGED <<geoData, trackingData, photoMarkers, mapCenter,
                               effectPending, notices>>
           ELSE /\ SetGeoData(list)
                /\ batches' = Remove(batches, b)
                /\ last' = Step("append", "kmz", t.files, list, r.tag)

\* handleTrackingFiles is called with a file list.
handleTrackingFiles(files) ==
    /\ Len(batches) < MaxBatches
    /\ uploaded + Cost(files) <= MaxFiles
    /\ uploaded' = uploaded + Cost(files)
    /\ UNCHANGED <<nextUrl, liveUrls>>
    /\ IF files = <<>>
       THEN /\ SetTrackingData(<<>>)
            /\ UNCHANGED batches
            /\ last' = Step("append", "track", files, <<>>, "none")
       ELSE /\ batches' = Append(batches, Batch("track", files, 1, 1, <<>>))
            /\ last' = Step("start", "track", files, <<>>, "none")
            /\ UNCHANGED <<geoData, trackingData, photoMarkers, mapCenter,
                           effectPending, notices>>

\* Mutant of handleTrackingFilesResume: the handler calls the setter
\* with the result of each file as soon as it has it.
handleTrackingFilesResumeEager(b) ==
    /\ batches[b].kind = "track"
    /\ UNCHANGED <<uploaded, nextUrl, liveUrls>>
    /\ LET t == batches[b]
           r == TrackResult(t.files[t.i])
           list == Push(<<>>, r)
       IN  /\ SetTrackingData(list)
           /\ IF t.i < Len(t.files)
              THEN /\ batches' = [batches EXCEPT ![b] =
                                    Batch(t.kind, t.files, t.i + 1, 1, <<>>)]
                   /\ last' = Step("file", "track", t.files, <<>>, r.tag)
              ELSE /\ batches' = Remove(batches, b)
                   /\ last' = Step("append", "track", t.files, list, r.tag)

\* The await file.text() of file i of invocation b of handleTrackingFiles
\* settles.
handleTrackingFilesResume(b) ==
    /\ batches[b].kind = "track"
    /\ UNCHANGED <<uploaded, nextUrl, liveUrls>>
    /\ LET t == batches[b]
           r == TrackResult(t.files[t.i])
           list == Push(t.list, r)
       IN  IF t.i < Len(t.files)
           THEN /\ batches' = [batches EXCEPT ![b] =
                                 Batch(t.kind, t.files, t.i + 1, 1, list)]
                /\ last' = Step("file", "track", t.files, <<>>, r.tag)
                /\ UNCHANGED <<geoData, trackingData, photoMarkers, mapCenter,
                               effectPending, notices>>
           ELSE /\ SetTrackingData(list)
                /\ batches' = Remove(batches, b)
                /\ last' = Step("append", "track", t.files, list, r.tag)

\* handlePhotos is called with a file list.
handlePhotos(files) ==
    /\ Len(batches) < MaxBatches
    /\ uploaded + Cost(files) <= MaxFiles
    /\ files = <<>> => notices < MaxNotices
    /\ uploaded' = uploaded + Cost(files)
    /\ UNCHANGED <<nextUrl, liveUrls>>
    /\ IF files = <<>>
       THEN /\ FinishPhotos(<<>>)
            /\ UNCHANGED batches
            /\ last' = Step(PhotoOp(<<>>), "photo", files, <<>>, "none")
       ELSE /\ batches' = Append(batches, Batch("photo", files, 1, 1, <<>>))
            /\ last' = Step("start", "photo", files, <<>>, "none")
            /\ UNCHANGED <<geoData, trackingData, photoMarkers, mapCenter,
                           effectPending, notices>>

\* Mutant of handlePhotosResume: a file whose extraction rejects ends the
\* handler without the notice and without a call of the setter.
handlePhotosResumeAborts(b) ==
    /\ batches[b].kind = "photo"
    /\ UNCHANGED uploaded
    /\ LET t == batches[b]
           r == PhotoResult(t.files[t.i], nextUrl)
           markers == Push(t.list, r)
       IN  /\ IF r.tag = "value"
              THEN /\ nextUrl' = nextUrl + 1
                   /\ liveUrls' = liveUrls \cup {nextUrl}
              ELSE UNCHANGED <<nextUrl, liveUrls>>
           /\ IF r.tag = "throw"
              THEN /\ batches' = Remove(batches, b)
                   /\ last' = Step("abort", "photo", t.files, <<>>, r.tag)
                   /\ UNCHANGED <<geoData, trackingData, photoMarkers,
                                  mapCenter, effectPending, notices>>
              ELSE IF t.i < Len(t.files)
              THEN /\ batches' = [batches EXCEPT ![b] =
                                    Batch(t.kind, t.files, t.i + 1, 1, markers)]
                   /\ last' = Step("file", "photo", t.files, <<>>, r.tag)
                   /\ UNCHANGED <<geoData, trackingData, photoMarkers,
                                  mapCenter, effectPending, notices>>
              ELSE /\ FinishPhotos(markers)
                   /\ batches' = Remove(batches, b)
                   /\ last' = Step(PhotoOp(markers), "photo", t.files, markers, r.tag)

\* The await exifr.gps(file) of file i of invocation b of handlePhotos
\* settles; a marker takes a fresh object URL.
handlePhotosResume(b) ==
    /\ batches[b].kind = "photo"
    /\ UNCHANGED uploaded
    /\ LET t == batches[b]
           r == PhotoResult(t.files[t.i], nextUrl)
           markers == Push(t.list, r)
       IN  /\ IF r.tag = "value"
              THEN /\ nextUrl' = nextUrl + 1
                   /\ liveUrls' = liveUrls \cup {nextUrl}
              ELSE UNCHANGED <<nextUrl, liveUrls>>
           /\ IF t.i < Len(t.files)
              THEN /\ batches' = [batches EXCEPT ![b] =
                                    Batch(t.kind, t.files, t.i + 1, 1, markers)]
                   /\ last' = Step("file", "photo", t.files, <<>>, r.tag)
                   /\ UNCHANGED <<geoData, trackingData, photoMarkers,
                                  mapCenter, effectPending, notices>>
              ELSE /\ FinishPhotos(markers)
                   /\ batches' = Remove(batches, b)
                   /\ last' = Step(PhotoOp(markers), "photo", t.files, markers, r.tag)

\* The effect with dependencies [geoData, trackingData, photoMarkers] runs.
useEffectAutoCenter ==
    /\ effectPending
    /\ mapCenter' = AutoCenter(geoData, trackingData, photoMarkers, mapCenter)
    /\ effectPending' = FALSE
    /\ last' = Step("effect", last.kind, <<>>, <<>>, last.op)
    /\ UNCHANGED <<geoData, trackingData, photoMarkers, batches, uploaded,
                   nextUrl, liveUrls, notices>>

\* The center handleClearAll sets.
ClearCenter == DefaultCenter

\* Mutant of handleClearAll: the clear ends the invocations in flight.
handleClearAllCancels ==
    /\ geoData' = <<>>
    /\ trackingData' = <<>>
    /\ photoMarkers' = <<>>
    /\ mapCenter' = Flush(ClearCenter)
    /\ effectPending' = TRUE
    /\ batches' = <<>>
    /\ last' = Step("clear", IF AllEmpty THEN "empty" ELSE "content",
                     <<>>, <<>>, IF effectPending THEN "pending" ELSE "none")
    /\ UNCHANGED <<uploaded, nextUrl, liveUrls, notices>>

\* The clear button is clicked: the four setter calls are rendered
\* together; a scheduled effect runs before that render, and when it calls
\* setMapCenter, that call comes after the one of the clear.
handleClearAll ==
    /\ geoData' = <<>>
    /\ trackingData' = <<>>
    /\ photoMarkers' = <<>>
    /\ mapCenter' = Flush(ClearCenter)
    /\ effectPending' = TRUE
    /\ last' = Step("clear", IF AllEmpty THEN "empty" ELSE "content",
                     <<>>, <<>>, IF effectPending THEN "pending" ELSE "none")
    /\ UNCHANGED <<batches, uploaded, nextUrl, liveUrls, notices>>

\* The files of the runs with uploads of all three kinds: of each kind a
\* file that fails and one that carries coordinates.
KmzFew == { MalformedKmz } \cup { f \in KmzFiles : f.name = "two.kmz" }
TrackFew == { f \in TrackFiles : f.name \in {"bad.kml", "t1.kml"} }
PhotoFew == { f \in PhotoFiles : f.name \in {"broken.jpg", "a.jpg"} }

Next ==
    \/ \E files \in FileLists(KmzFew, MaxFiles - uploaded) :
          handleKmzFiles(files) /\ UNCHANGED hist
    \/ \E b \in DOMAIN batches : handleKmzFilesResume(b) /\ UNCHANGED hist
    \/ \E files \in FileLists(TrackFew, MaxFiles - uploaded) :
          handleTrackingFiles(files) /\ UNCHANGED hist
    \/ \E b \in DOMAIN batches : handleTrackingFilesResume(b) /\ UNCHANGED hist
    \/ \E files \in FileLists(PhotoFew, MaxFiles - uploaded) :
          handlePhotos(files) /\ UNCHANGED hist
    \/ \E b \in DOMAIN batches : handlePhotosResume(b) /\ UNCHANGED hist
    \/ useEffectAutoCenter /\ UNCHANGED hist
    \/ handleClearAll /\ UNCHANGED hist

Spec == Init /\ [][Next]_vars

\* Boundary uploads alone, of all the archives.
NextKmz ==
    \/ \E files \in FileLists(KmzFiles, MaxFiles - uploaded) :
          handleKmzFiles(files) /\ UNCHANGED hist
    \/ \E b \in DOMAIN batches : handleKmzFilesResume(b) /\ UNCHANGED hist
    \/ useEffectAutoCenter /\ UNCHANGED hist

SpecKmz == Init /\ [][NextKmz]_vars

\* Photo uploads alone, of all the photos.
NextPhoto ==
    \/ \E files \in FileLists(PhotoFiles, MaxFiles - uploaded) :
          handlePhotos(files) /\ UNCHANGED hist
    \/ \E b \in DOMAIN batches : handlePhotosResume(b) /\ UNCHANGED hist
    \/ useEffectAutoCenter /\ UNCHANGED hist

SpecPhoto == Init /\ [][NextPhoto]_vars

----------------------------------------------------------------------------
(* Uploads of two boundary archives with different geometries, with the
   history of the uploads recorded in hist:
   started counts the uploads, the n-th upload has the id n; ids holds the
   ids of the invocations in flight, in the order of batches; done holds the
   ids of the uploads that ran to their end, by calling their setter; log
   starts with an entry of kind "clear" for the last clear, if there was one
   (its id being the number of uploads started before it), and holds, in the
   order they happened, an entry for every upload that ran to its end since
   then (its id, its kind, its files and the results it handed to its
   setter). *)

LogEntry(id, kind, files, added) ==
    [id |-> id, kind |-> kind, files |-> files, added |-> added]

\* An upload starts: it takes the next id; one without files has run to
\* its end in the same step.
RecordStart ==
    LET id == hist.started + 1
        ends == last'.op # "start"
    IN  /\ hist.started < MaxUploads
        /\ hist' = [started |-> id,
                    ids |-> IF ends THEN hist.ids ELSE Append(hist.ids, id),
                    done |-> IF ends THEN hist.done \cup {id} ELSE hist.done,
                    log |-> IF ends
                            THEN Append(hist.log,
                                        LogEntry(id, last'.kind, last'.files,
                                                 last'.added))
                            ELSE hist.log]

\* Invocation b takes a step: it has run to its end when it has called its
\* setter or shown the notice.
RecordResume(b) ==
    LET id == hist.ids[b]
        ends == last'.op \in {"append", "notice"}
    IN  hist' = [started |-> hist.started,
                 ids |-> IF Len(batches') < Len(batches)
                         THEN Remove(hist.ids, b) ELSE hist.ids,
                 done |-> IF ends THEN hist.done \cup {id} ELSE hist.done,
                 log |-> IF ends
                         THEN Append(hist.log,
                                     LogEntry(id, last'.kind, last'.files,
                                              last'.added))
                         ELSE hist.log]

\* A clear: the log starts again.
RecordClear ==
    hist' = [hist EXCEPT !.log = <<LogEntry(hist.started, "clear", <<>>, <<>>)>>]

\* Two archives whose geometries differ.
KmzPair == { f \in KmzFiles : f.name \in {"one.kmz", "two.kmz"} }

NextRecorded ==
    \/ \E files \in FileLists(KmzPair, MaxFiles - uploaded) :
          handleKmzFiles(files) /\ RecordStart
    \/ \E b \in DOMAIN batches : handleKmzFilesResume(b) /\ RecordResume(b)
    \/ useEffectAutoCenter /\ UNCHANGED hist
    \/ handleClearAll /\ RecordClear

SpecRecorded == Init /\ [][NextRecorded]_vars

\* Uploads of a boundary archive, of a track whose read fails and of a
\* photo whose metadata extraction fails, for the properties of what
\* happens eventually.
KmzLive == { f \in KmzFiles : f.name = "two.kmz" }
TrackLive == { f \in TrackFiles : f.name = "bad.kml" }
PhotoLive == { f \in PhotoFiles : f.name = "broken.jpg" }

NextLive ==
    \/ \E files \in FileLists(KmzLive, MaxFiles - uploaded) :
          handleKmzFiles(files) /\ UNCHANGED hist
    \/ \E b \in DOMAIN batches : handleKmzFilesResume(b) /\ UNCHANGED hist
    \/ \E files \in FileLists(TrackLive, 1) :
          handleTrackingFiles(files) /\ UNCHANGED hist
    \/ \E b \in DOMAIN batches : handleTrackingFilesResume(b) /\ UNCHANGED hist
    \/ \E files \in FileLists(PhotoLive, MaxFiles - uploaded) :
          handlePhotos(files) /\ UNCHANGED hist
    \/ \E b \in DOMAIN batches : handlePhotosResume(b) /\ UNCHANGED hist
    \/ useEffectAutoCenter /\ UNCHANGED hist
    \/ handleClearAll /\ UNCHANGED hist

\* React runs a scheduled effect.  Every await settles (the file read, the
\* archive decoding and the metadata extraction return or fail) and the
\* event loop runs the continuation of a settled await.
Fairness ==
    /\ WF_vars(useEffectAutoCenter /\ UNCHANGED hist)
    /\ \A b \in 1..MaxBatches :
          /\ WF_vars(b \in DOMAIN batches /\ handleKmzFilesResume(b)
                       /\ UNCHANGED hist)
          /\ WF_vars(b \in DOMAIN batches /\ handleTrackingFilesResume(b)
                       /\ UNCHANGED hist)
          /\ WF_vars(b \in DOMAIN batches /\ handlePhotosResume(b)
                       /\ UNCHANGED hist)

SpecFair == Init /\ [][NextLive]_vars /\ Fairness

\* Uploads of a boundary archive, of a track with coordinates, of tracks
\* whose text is not well-formed (with none and with one of their
\* placemarks read) and of a photo with a position, and clears, for the
\* properties of the effect.  Each upload selects at most
\* one file (a handler calls its setter once whatever the number of
\* files); uploads overlap as in Spec.
KmzCenter == { f \in KmzFiles : f.name = "two.kmz" }
TrackCenter == { f \in TrackFiles : f.name # "bad.kml" }
PhotoCenter == { f \in PhotoFiles : f.name = "a.jpg" }

NextCenter ==
    \/ \E files \in FileLists(KmzCenter, 1) :
          handleKmzFiles(files) /\ UNCHANGED hist
    \/ \E b \in DOMAIN batches : handleKmzFilesResume(b) /\ UNCHANGED hist
    \/ \E files \in FileLists(TrackCenter, 1) :
          handleTrackingFiles(files) /\ UNCHANGED hist
    \/ \E b \in DOMAIN batches : handleTrackingFilesResume(b) /\ UNCHANGED hist
    \/ \E files \in FileLists(PhotoCenter, 1) :
          handlePhotos(files) /\ UNCHANGED hist
    \/ \E b \in DOMAIN batches : handlePhotosResume(b) /\ UNCHANGED hist
    \/ useEffectAutoCenter /\ UNCHANGED hist
    \/ handleClearAll /\ UNCHANGED hist

\* React runs a scheduled effect.
FairnessCenter == WF_vars(useEffectAutoCenter /\ UNCHANGED hist)

SpecCenter == Init /\ [][NextCenter]_vars /\ FairnessCenter

----------------------------------------------------------------------------
(* Properties *)

\* C1: clear, whatever the content before it, leaves the three sequences
\* empty and the center at the default, and the effect that the clear
\* schedules leaves the center at the default.
C1_ClearResetsAll ==
    /\ last.op = "clear" => AllEmpty /\ mapCenter = DefaultCenter
    /\ (last.op = "effect" /\ last.note = "clear") =>
           AllEmpty /\ mapCenter = DefaultCenter

\* C2: after photo uploads that have completed and a clear that follows
\* them, no object URL created for a photo marker is left unreleased.
C2_UrlsReleasedByClear ==
    (last.op = "clear" /\ batches = <<>>) => liveUrls = {}

\* C10: whenever the three sequences are all empty the center is the
\* default center.
C10_EmptyMeansDefaultCenter == AllEmpty => mapCenter = DefaultCenter

\* 90 degrees of latitude and 180 degrees of longitude, in quanta.
Lat90 == <<1509949440, 0>>
Lng180 == <<754974720, 0>>

\* A latitude in [-90, 90] degrees, a longitude in [-180, 180] degrees.
ValidLat(x) ==
    x.tag = "value" /\ Leq(Neg(Lat90), x.value) /\ Leq(x.value, Lat90)
ValidLng(x) ==
    x.tag = "value" /\ Leq(Neg(Lng180), x.value) /\ Leq(x.value, Lng180)

\* The GPS metadata of photo f carries a valid latitude and longitude.
ValidGps(f) ==
    /\ f.gps.tag = "value"
    /\ ValidLat(f.gps.value.latitude)
    /\ ValidLng(f.gps.value.longitude)

\* Marker m carries the coordinates and the name of photo f.
MarkerOf(m, f) ==
    /\ m.name = f.name
    /\ m.lat = f.gps.value.latitude.value
    /\ m.lng = f.gps.value.longitude.value

\* An upload of kind k has run to its end in the last step.
Completed(k) == last.kind = k /\ last.op \in {"append", "notice"}

\* C3: a completed photo upload has exactly one marker, with the same
\* coordinates and name, for every photo of it with a valid latitude and
\* longitude.
C3_ValidGpsYieldsMarker ==
    Completed("photo") =>
        \A i \in DOMAIN last.files :
            ValidGps(last.files[i]) =>
                Cardinality({ j \in DOMAIN last.added :
                                MarkerOf(last.added[j], last.files[i]) })
                = Cardinality({ j \in DOMAIN last.files :
                                  /\ ValidGps(last.files[j])
                                  /\ last.files[j].name = last.files[i].name
                                  /\ last.files[j].gps = last.files[i].gps })

\* Photo f carries GPS metadata with a latitude and a longitude.
CarriesGps(f) ==
    /\ f.gps.tag = "value"
    /\ f.gps.value.latitude.tag = "value"
    /\ f.gps.value.longitude.tag = "value"

\* The step completes a photo upload.
PhotoUploadEnds == last'.kind = "photo" /\ last'.op \in {"append", "notice"}

\* C4: the notice fires once when a photo upload ends without a marker and
\* then leaves the sequences and the center as they are; it fires in no
\* other step; and photos without GPS metadata yield no marker.
C4_NoticeOnlyForEmptyUpload ==
    [][ /\ (PhotoUploadEnds /\ last'.added = <<>>) =>
              /\ notices' = notices + 1
              /\ UNCHANGED <<geoData, trackingData, photoMarkers, mapCenter>>
        /\ ~(PhotoUploadEnds /\ last'.added = <<>>) => notices' = notices
        /\ PhotoUploadEnds =>
              /\ \A j \in DOMAIN last'.added :
                    \E i \in DOMAIN last'.files :
                        /\ CarriesGps(last'.files[i])
                        /\ MarkerOf(last'.added[j], last'.files[i])
              /\ Len(last'.added) <=
                    Cardinality({ i \in DOMAIN last'.files :
                                    CarriesGps(last'.files[i]) })
      ]_vars

\* A photo upload of two photos without usable GPS metadata has ended with
\* the notice, while markers of an earlier upload are on the map.
C4_Witness ==
    /\ last.op = "notice" /\ Len(last.files) = 2 /\ notices = 1
    /\ Len(photoMarkers) > 0

\* seq is a prefix of seq2.
IsPrefix(seq, seq2) ==
    Len(seq) <= Len(seq2) /\ SubSeq(seq2, 1, Len(seq)) = seq

\* C5: a completing upload adds its results at the end of the collection of
\* its kind, and no step but a clear removes, replaces or reorders elements.
C5_UploadsAccumulate ==
    [][ /\ (last'.op = "append" /\ last'.kind = "kmz") =>
              geoData' = geoData \o last'.added
        /\ (last'.op = "append" /\ last'.kind = "track") =>
              trackingData' = trackingData \o last'.added
        /\ (last'.op = "append" /\ last'.kind = "photo") =>
              photoMarkers' = photoMarkers \o last'.added
        /\ last'.op # "clear" =>
              /\ IsPrefix(geoData, geoData')
              /\ IsPrefix(trackingData, trackingData')
              /\ IsPrefix(photoMarkers, photoMarkers')
      ]_vars

\* A second upload has added a geometry behind the one of a first upload.
C5_Witness ==
    /\ last.op = "append" /\ last.kind = "kmz" /\ Len(last.added) = 1
    /\ Len(geoData) = 2

\* The outcome of the handler's try block for file f of an upload of kind
\* k, without the object URL of a marker.
Outcome(k, f) ==
    IF k = "kmz" THEN KmzResult(f)
    ELSE IF k = "track" THEN TrackResult(f)
    ELSE PhotoResult(f, 0)

\* The results without the object URLs of the markers.
NoUrl(k, list) ==
    IF k = "photo"
    THEN [j \in DOMAIN list |-> [list[j] EXCEPT !.url = 0]]
    ELSE list

\* The values of the files of an upload whose try block ends with a value,
\* in the order of the files.
RECURSIVE Contributions(_, _)
Contributions(k, files) ==
    IF files = <<>> THEN <<>>
    ELSE LET r == Outcome(k, Head(files))
         IN  (IF r.tag = "value" THEN <<r.value>> ELSE <<>>)
             \o Contributions(k, Tail(files))

\* Archive f has an entry whose name ends with .kml.
HasKmlEntry(f) ==
    f.readable /\ \E i \in DOMAIN f.entries : EndsWithKml(f.entries[i].name)

\* The first entry of archive f whose name ends with .kml.
FirstKmlEntry(f) ==
    f.entries[CHOOSE i \in DOMAIN f.entries :
                /\ EndsWithKml(f.entries[i].name)
                /\ \A j \in 1..(i - 1) : ~EndsWithKml(f.entries[j].name)]

\* Archive f has a markup entry and its first one converts: decoding it
\* and converting its text return.
Converts(f) == HasKmlEntry(f) /\ FirstKmlEntry(f).content.tag = "value"

\* The geometry the text of a markup file or entry converts to.
Geometry(text) == UNION { text.placemarks[i] : i \in 1..text.read }

\* File f of an upload of kind k fails: an archive that cannot be read or
\* decoded, or whose markup entry cannot be decoded or is malformed; a
\* track file that cannot be read or whose markup is malformed; an image
\* whose metadata cannot be read.
Fails(k, f) ==
    IF k = "kmz"
    THEN \/ ~f.readable
         \/ ~f.archive
         \/ /\ HasKmlEntry(f)
            /\ \/ FirstKmlEntry(f).content.tag = "throw"
               \/ FirstKmlEntry(f).content.value.error
    ELSE IF k = "track"
    THEN f.content.tag = "throw" \/ f.content.value.error
    ELSE f.gps.tag = "throw"

\* The results of the files of an upload that do not fail, in the order of
\* the files.
RECURSIVE Survivors(_, _)
Survivors(k, files) ==
    IF files = <<>> THEN <<>>
    ELSE LET r == Outcome(k, Head(files))
         IN  (IF ~Fails(k, Head(files)) /\ r.tag = "value"
              THEN <<r.value>> ELSE <<>>)
             \o Survivors(k, Tail(files))

\* C6: a file that fails contributes nothing and stops nothing: a handler
\* in flight holds the results of all files before the one it awaits but
\* the failing ones, and a completed upload of any of the three kinds has
\* handed the results of all its files but the failing ones to its setter.
C6_FailureSkipsOnlyThatFile ==
    /\ \A b \in DOMAIN batches :
          LET t == batches[b]
          IN  /\ t.i \in 1..Len(t.files)
              /\ NoUrl(t.kind, t.list) =
                     Survivors(t.kind, SubSeq(t.files, 1, t.i - 1))
    /\ last.op \in {"append", "notice"} =>
          NoUrl(last.kind, last.added) = Survivors(last.kind, last.files)

\* C7: a completed boundary upload appends one geometry, that of the first
\* markup entry, for each archive that has a markup entry and converts, in
\* the order of the archives, and nothing for any other archive.
C7_OneGeometryPerArchive ==
    Completed("kmz") =>
        LET good == SelectSeq(last.files, Converts)
        IN  /\ Len(last.added) = Len(good)
            /\ \A j \in DOMAIN good :
                  last.added[j] = Geometry(FirstKmlEntry(good[j]).content.value)

\* A boundary upload has completed with an archive without markup entry
\* and an archive with two markup entries, and has appended one geometry.
C7_Witness ==
    /\ Completed("kmz") /\ Len(last.added) = 1
    /\ \E i \in DOMAIN last.files : ~HasKmlEntry(last.files[i])
                                     /\ last.files[i].readable
    /\ \E i \in DOMAIN last.files :
          Cardinality({ e \in DOMAIN last.files[i].entries :
                          EndsWithKml(last.files[i].entries[e].name) }) = 2

\* C8: a step of a track upload leaves the boundary and photo sequences as
\* they are, a step of a boundary upload the track and photo sequences, a
\* step of a photo upload the boundary and track sequences; and the center
\* changes only when the effect runs, by itself or, when it is still
\* scheduled, before the render of an append, or in a clear.
C8_EachUploadWritesItsOwn ==
    [][ /\ (last'.op \in {"start", "await", "file", "append", "notice"}) =>
              /\ last'.kind = "track" => UNCHANGED <<geoData, photoMarkers>>
              /\ last'.kind = "kmz" => UNCHANGED <<trackingData, photoMarkers>>
              /\ last'.kind = "photo" => UNCHANGED <<geoData, trackingData>>
        /\ mapCenter' # mapCenter =>
              \/ last'.op \in {"effect", "clear"}
              \/ /\ last'.op = "append" /\ effectPending
                 /\ mapCenter' = AutoCenter(geoData, trackingData,
                                            photoMarkers, mapCenter)
      ]_vars

\* A track upload has appended a geometry while a boundary and a marker
\* are loaded.
C8_Witness ==
    /\ last.op = "append" /\ last.kind = "track" /\ Len(last.added) > 0
    /\ Len(geoData) > 0 /\ Len(photoMarkers) > 0

\* All coordinates of the loaded geometries and markers.
Coords ==
    UNION { geoData[i] : i \in DOMAIN geoData }
    \cup UNION { trackingData[i] : i \in DOMAIN trackingData }
    \cup { <<photoMarkers[i].lat, photoMarkers[i].lng>> : i \in DOMAIN photoMarkers }

\* Twice the signed area of the triangle a, b, p.
Cross(a, b, p) ==
    (b[1] - a[1]) * (p[2] - a[2]) - (b[2] - a[2]) * (p[1] - a[1])

\* p lies on the segment from a to b.
OnSegment(p, a, b) ==
    /\ Cross(a, b, p) = 0
    /\ (a[1] <= p[1] /\ p[1] <= b[1]) \/ (b[1] <= p[1] /\ p[1] <= a[1])
    /\ (a[2] <= p[2] /\ p[2] <= b[2]) \/ (b[2] <= p[2] /\ p[2] <= a[2])

\* p lies in the triangle a, b, c (a segment or a point when they are
\* collinear).
InTriangle(p, a, b, c) ==
    IF Cross(a, b, c) = 0
    THEN OnSegment(p, a, b) \/ OnSegment(p, b, c) \/ OnSegment(p, a, c)
    ELSE \/ Cross(a, b, p) >= 0 /\ Cross(b, c, p) >= 0 /\ Cross(c, a, p) >= 0
         \/ Cross(a, b, p) <= 0 /\ Cross(b, c, p) <= 0 /\ Cross(c, a, p) <= 0

\* p lies in the convex hull of the points of S: in the plane, in a triangle
\* of three of them.
InHull(p, S) == \E a \in S, b \in S, c \in S : InTriangle(p, a, b, c)

\* The point p on the grid of half quanta that has its origin at point o.
Halves(p, o) == <<2 * Off(p[1], o[1]), 2 * Off(p[2], o[2])>>

\* The loaded coordinates and the center on the grid of half quanta with
\* its origin at one of the loaded coordinates.
Origin == CHOOSE p \in Coords : TRUE
Hull == { Halves(p, Origin) : p \in Coords }
Center == Halves(mapCenter, Origin)

\* The south, north, west and east edge of the rectangle around the loaded
\* coordinates, in half quanta.
LatLow == CHOOSE x \in { p[1] : p \in Hull } : \A q \in Hull : x <= q[1]
LatTop == CHOOSE x \in { p[1] : p \in Hull } : \A q \in Hull : x >= q[1]
LngLow == CHOOSE x \in { p[2] : p \in Hull } : \A q \in Hull : x <= q[2]
LngTop == CHOOSE x \in { p[2] : p \in Hull } : \A q \in Hull : x >= q[2]

\* The midpoints of both axes are binary64 numbers: the sums of the two
\* edges are even numbers of quanta.
NoRounding == (LatLow + LatTop) % 4 = 0 /\ (LngLow + LngTop) % 4 = 0

\* The points at most half a quantum from p on each axis.
Near(p) == { <<p[1] + i, p[2] + j>> : i \in {-1, 0, 1}, j \in {-1, 0, 1} }

\* C9, as amended: when the loaded geometries and markers carry at least one
\* coordinate and the effect has run for the current collections, the
\* center lies in the rectangle around all their coordinates and at most
\* half a quantum, on each axis, from a point of their convex hull; and it
\* lies in the convex hull when the midpoints are computed without
\* rounding.
C9_CenterNearHull ==
    (~effectPending /\ Coords # {}) =>
        /\ LatLow <= Center[1] /\ Center[1] <= LatTop
        /\ LngLow <= Center[2] /\ Center[2] <= LngTop
        /\ \E h \in Near(Center) : InHull(h, Hull)
        /\ NoRounding => InHull(Center, Hull)

\* C9, as claimed: whenever a collection is non-empty and the effect has
\* run, the center lies in the convex hull of the loaded coordinates.
C9_CenterInHullOfNonEmpty ==
    (~effectPending /\ ~AllEmpty) => (Coords # {} /\ InHull(Center, Hull))

\* The effect has run with a boundary of two points loaded: the midpoints
\* of their latitudes and of their longitudes were rounded, and the center
\* lies off the segment between them, half a quantum from it on each axis.
C9_Witness ==
    /\ ~effectPending /\ last.op = "effect"
    /\ Len(geoData) > 0 /\ Coords = {P2, P3}
    /\ ~NoRounding /\ ~InHull(Center, Hull)
    /\ mapCenter = <<Lat(62), Lng(50)>>

\* The center, computed in binary64, of the smallest rectangle around the
\* points of S.
BoxCenter(S) ==
    CHOOSE c \in { <<Mid(s, n), Mid(w, e)>> :
                     s \in {Min({p[1] : p \in S})},
                     n \in {Max({p[1] : p \in S})},
                     w \in {Min({p[2] : p \in S})},
                     e \in {Max({p[2] : p \in S})} } : TRUE

\* C11: every step that sets one of the three collections schedules the
\* effect, and a scheduled effect runs; when it runs it sets the center to
\* the center of the rectangle around all loaded coordinates, and leaves
\* the center as it is when there is no coordinate.  A step that sets a
\* collection while the effect is still scheduled runs it first, on the
\* collections as they were; only a clear sets the center itself, to the
\* default, and the effect run with it sets the center after that.
C11_RecomputationFollowsChange ==
    /\ [][ /\ last'.op \in {"append", "clear"} => effectPending'
           /\ (geoData' # geoData \/ trackingData' # trackingData
                 \/ photoMarkers' # photoMarkers) => effectPending'
           /\ last'.op = "effect" =>
                 /\ effectPending /\ ~effectPending'
                 /\ mapCenter' = IF Coords # {} THEN BoxCenter(Coords)
                                 ELSE mapCenter
           /\ last'.op = "append" =>
                 mapCenter' = IF effectPending /\ Coords # {}
                              THEN BoxCenter(Coords) ELSE mapCenter
           /\ last'.op = "clear" =>
                 mapCenter' = IF effectPending /\ Coords # {}
                              THEN BoxCenter(Coords) ELSE DefaultCenter
         ]_vars
    /\ effectPending ~> (last.op = "effect" /\ ~effectPending)

\* The effect has run with a boundary, a track without coordinates and a
\* marker loaded, and the center is that of the rectangle around the
\* coordinates of the boundary and the marker.
C11_Witness ==
    /\ last.op = "effect" /\ last.note = "append"
    /\ geoData = <<{P2, P3}>> /\ trackingData = <<{}>>
    /\ Len(photoMarkers) = 1 /\ Coords = {P1, P2, P3}
    /\ mapCenter = <<Lat(41), Lng(40)>> /\ mapCenter = BoxCenter(Coords)

\* The three collections by the kind of upload that appends to them.
Collections ==
    [kmz |-> geoData, track |-> trackingData, photo |-> photoMarkers]

\* C12: a step that starts an upload or takes it from one await or file to
\* the next changes none of the three collections and schedules no effect;
\* the step that ends an upload adds the results of all its files to its
\* collection at once.
C12_BatchVisibleAtOnce ==
    [][ /\ last'.op \in {"start", "await", "file"} =>
              /\ UNCHANGED <<geoData, trackingData, photoMarkers>>
              /\ effectPending' = effectPending
        /\ last'.op = "append" =>
              \A k \in {"kmz", "track", "photo"} :
                 Collections'[k] =
                    IF k = last'.kind
                    THEN Collections[k] \o last'.added
                    ELSE Collections[k]
        /\ last'.op = "append" =>
              NoUrl(last'.kind, last'.added)
                 = Contributions(last'.kind, last'.files)
      ]_vars

\* The one upload so far, of two tracks, has run to its end, and the
\* collection holds both its results.
C12_Witness ==
    /\ last.op = "append" /\ last.kind = "track" /\ uploaded = 2
    /\ Len(last.files) = 2 /\ Len(last.added) = 2
    /\ trackingData = last.added

\* What the try block adds to the results for file f of an upload of kind
\* k, without the object URL of a marker.
Contribution(k, f) ==
    LET r == Outcome(k, f)
    IN  IF r.tag = "value" THEN <<r.value>> ELSE <<>>

\* C13: every step of an invocation after its start is the step of one
\* invocation b for the file at its index i alone.  A step to the next
\* await of that file changes neither the index nor the results.  The step
\* that ends the file records its outcome and adds what the file
\* contributes at the end of the results; before the last file it moves
\* the index to i + 1, at the first await of that file, and at the last
\* file the invocation ends with the results in the order of the files.
C13_OneFileAtATimeInOrder ==
    [][ /\ last'.op = "await" =>
              \E b \in DOMAIN batches :
                 /\ last'.files = batches[b].files
                 /\ batches' = [batches EXCEPT ![b].at = @ + 1]
        /\ (last'.op \in {"file", "append", "notice"} /\ last'.files # <<>>) =>
          \E b \in DOMAIN batches :
             LET t == batches[b]
                 grown == NoUrl(t.kind, t.list)
                             \o Contribution(t.kind, t.files[t.i])
             IN  /\ last'.kind = t.kind /\ last'.files = t.files
                 /\ last'.note = Outcome(t.kind, t.files[t.i]).tag
                 /\ IF t.i < Len(t.files)
                    THEN /\ last'.op = "file"
                         /\ Len(batches') = Len(batches)
                         /\ \A c \in DOMAIN batches \ {b} :
                               batches'[c] = batches[c]
                         /\ batches'[b].files = t.files
                         /\ batches'[b].i = t.i + 1
                         /\ batches'[b].at = 1
                         /\ NoUrl(t.kind, batches'[b].list) = grown
                    ELSE /\ batches' = Remove(batches, b)
                         /\ NoUrl(t.kind, last'.added) = grown
                         /\ grown = Contributions(t.kind, t.files)
      ]_vars

\* An upload of three boundary archives, the second without a .kml entry,
\* has run to its end with the results of the first and the third, which
\* differ, in that order.
C13_Witness ==
    /\ last.op = "append" /\ last.kind = "kmz" /\ Len(last.files) = 3
    /\ KmzResult(last.files[2]).tag = "undefined"
    /\ KmzResult(last.files[1]).tag = "value"
    /\ KmzResult(last.files[3]).tag = "value"
    /\ last.added = <<KmzResult(last.files[1]).value,
                      KmzResult(last.files[3]).value>>
    /\ last.added[1] # last.added[2]

\* C14: no step but the last of an invocation, the call of its setter or
\* the notice, takes it out of flight, and it takes out that one alone;
\* and the invocations in flight all run to their end, whatever their files
\* do and whatever clears and uploads happen meanwhile.
C14_EveryBatchCompletes ==
    /\ [][ batches' # batches =>
              \/ /\ last'.op = "start"
                 /\ Len(batches') = Len(batches) + 1
                 /\ SubSeq(batches', 1, Len(batches)) = batches
              \/ /\ last'.op \in {"await", "file"}
                 /\ Len(batches') = Len(batches)
              \/ /\ last'.op \in {"append", "notice"}
                 /\ \E b \in DOMAIN batches : batches' = Remove(batches, b)
         ]_vars
    /\ (batches # <<>>) ~> (batches = <<>>)

\* An upload of two photos has run to its end, the notice, at a last file
\* that threw, after a boundary upload had run to its end and the map had
\* been cleared, and nothing is in flight.
C14_Witness ==
    /\ last.op = "notice" /\ last.note = "throw" /\ Len(last.files) = 2
    /\ uploaded = MaxFiles /\ batches = <<>>
    /\ geoData = <<>> /\ mapCenter = DefaultCenter /\ notices = 1

\* The ids of the uploads in flight.
InFlight == { hist.ids[b] : b \in DOMAIN hist.ids }

\* The results of the entries of kind k of a log, one after the other.
RECURSIVE Blocks(_, _)
Blocks(k, log) ==
    IF log = <<>> THEN <<>>
    ELSE (IF Head(log).kind = k THEN Head(log).added ELSE <<>>)
            \o Blocks(k, Tail(log))

\* C15: each collection is, one after the other and whole, the results of
\* the uploads of its kind that ran to their end since the last clear, in
\* the order in which they ended, whether or not they overlapped; and what
\* an upload handed to its setter is the results of its files, in the order
\* of the files.
C15_OverlappingBatchesKeepBlocks ==
    /\ \A k \in {"kmz", "track", "photo"} :
          Collections[k] = Blocks(k, hist.log)
    /\ \A i \in DOMAIN hist.log :
          hist.log[i].kind # "clear" =>
             NoUrl(hist.log[i].kind, hist.log[i].added)
                = Contributions(hist.log[i].kind, hist.log[i].files)

\* Two boundary uploads overlapped and the one started later, of one
\* archive, ended first: the collection holds its geometry before the two
\* different geometries of the one started first, which stand together and
\* in the order of its files.
C15_Witness ==
    /\ Len(hist.log) = 2
    /\ hist.log[1].kind = "kmz" /\ hist.log[2].kind = "kmz"
    /\ hist.log[1].id > hist.log[2].id
    /\ Len(hist.log[1].files) = 1 /\ hist.log[1].added = <<{P2, P3}>>
    /\ Len(hist.log[2].files) = 2 /\ hist.log[2].added = <<{P1}, {P2, P3}>>
    /\ geoData = <<{P2, P3}, {P1}, {P2, P3}>>

\* The last step ended an upload that was started before the last clear.
EndedAcrossClear ==
    /\ last.op \in {"append", "notice"}
    /\ Len(hist.log) >= 2
    /\ hist.log[1].kind = "clear"
    /\ hist.log[Len(hist.log)].id <= hist.log[1].id

\* C16: a clear ends no upload: every upload started is in flight or has
\* run to its end.  An upload started before the last clear that ends after
\* it hands the results of all its files to its setter, which puts them at
\* the end of what the collection holds since the clear and schedules the
\* effect; and the effect that then runs sets the center from the
\* coordinates loaded.
C16_ClearDoesNotCancel ==
    /\ Len(batches) = hist.started - Cardinality(hist.done)
    /\ InFlight \cup hist.done = 1..hist.started
    /\ EndedAcrossClear =>
          /\ NoUrl(last.kind, last.added)
                = Contributions(last.kind, last.files)
          /\ hist.log[Len(hist.log)].added = last.added
          /\ Collections[last.kind]
                = Blocks(last.kind, SubSeq(hist.log, 1, Len(hist.log) - 1))
                     \o last.added
          /\ last.op = "append" => effectPending
    /\ (last.op = "effect" /\ last.note = "append" /\ Coords # {}) =>
          mapCenter = BoxCenter(Coords)

\* A boundary upload was started, the map was cleared while its archive was
\* being read, and the upload then ended: the collection holds its results,
\* and the effect has set the center from them.
C16_Witness ==
    /\ last.op = "effect" /\ last.note = "append"
    /\ Len(hist.log) = 2 /\ hist.log[1].kind = "clear"
    /\ hist.log[2].kind = "kmz" /\ hist.log[2].id <= hist.log[1].id
    /\ geoData = hist.log[2].added /\ Len(geoData) = 1
    /\ mapCenter = BoxCenter(Coords) /\ mapCenter # DefaultCenter

====
